---------------------------- MODULE Spec2Model ----------------------------
(***************************************************************************)
(* Model of the ECL decoder of formats/src/th06/ecl.rs.                    *)
(*                                                                         *)
(* The decoder is a pure function of one byte buffer.  A slice of the      *)
(* buffer is always a suffix of it (nom only ever cuts bytes off the       *)
(* front), so a slice is modelled by its offset from the start of the      *)
(* buffer: the slice i of the code is the pair (input, p), and             *)
(* input.len() - i.len() of the code is a difference of two offsets.       *)
(*                                                                         *)
(* An IResult (or a panic in place of it) is the record                    *)
(*   [kind, rest, out, line]                                               *)
(* kind = "Ok":    rest is the remaining slice, out the parsed value;      *)
(* kind = "Error": nom's Err::Error, out the ErrorKind, rest the slice     *)
(*                 the error carries;                                      *)
(* kind = "Panic": the call did not return: the thread panicked, out       *)
(*                 names the panicking construct.                          *)
(* line is the line of ecl.rs that produced an Error or a Panic (0 for     *)
(* Ok); it is bookkeeping of the model, the code has no such field.        *)
(*                                                                         *)
(* TLC integers are 32 bits wide.  A u32 and an f32 are therefore carried  *)
(* as their 32-bit pattern read as a two's complement number: a u32 of     *)
(* 2^31 or more is carried as a negative number.                           *)
(***************************************************************************)
EXTENDS Integers, Sequences, FiniteSets, TLC

VARIABLES
    input,         \* the byte buffer given to Ecl::from_slice
    pc,            \* position in parse_ecl
    sub_offsets,   \* parse_ecl: sub_offsets
    main_offsets,  \* parse_ecl: main_offsets
    k,             \* index of the for loop in progress (1-based)
    cur,           \* many0: the slice i, as an offset into input
    acc,           \* many0: the records collected so far
    subs,          \* parse_ecl: subs
    mains,         \* parse_ecl: mains
    result,        \* what Ecl::from_slice returned, once pc = "done"
    last,          \* the latest record parser call: its table, start and outcome
    log            \* one entry per input[offset..] evaluated, in order

vars == <<input, pc, sub_offsets, main_offsets, k, cur, acc, subs, mains,
          result, last, log>>

-----------------------------------------------------------------------------
(* IResult constructors *)

Ok(rest, out) == [kind |-> "Ok", rest |-> rest, out |-> out, line |-> 0]

Error(rest, errkind, line) ==
    [kind |-> "Error", rest |-> rest, out |-> errkind, line |-> line]

Panic(rest, what, line) ==
    [kind |-> "Panic", rest |-> rest, out |-> what, line |-> line]

-----------------------------------------------------------------------------
(* nom::number::complete: fixed-width little-endian readers.  Each fails   *)
(* with Err::Error(Eof) at the slice it was given when the slice is        *)
(* shorter than the number.                                                *)

Remaining(inp, p) == Len(inp) - p

Low24(inp, p) == inp[p + 1] + 256 * inp[p + 2] + 65536 * inp[p + 3]

Signed8(b) == IF b >= 128 THEN b - 256 ELSE b

le_u8(inp, p, line) ==
    IF Remaining(inp, p) < 1 THEN Error(p, "Eof", line)
    ELSE Ok(p + 1, inp[p + 1])

le_u16(inp, p, line) ==
    IF Remaining(inp, p) < 2 THEN Error(p, "Eof", line)
    ELSE Ok(p + 2, inp[p + 1] + 256 * inp[p + 2])

le_i16(inp, p, line) ==
    IF Remaining(inp, p) < 2 THEN Error(p, "Eof", line)
    ELSE Ok(p + 2, inp[p + 1] + 256 * Signed8(inp[p + 2]))

le_i32(inp, p, line) ==
    IF Remaining(inp, p) < 4 THEN Error(p, "Eof", line)
    ELSE Ok(p + 4, Low24(inp, p) + 16777216 * Signed8(inp[p + 4]))

\* The value is the bit pattern (see the note on 32-bit integers above).
le_u32(inp, p, line) ==
    IF Remaining(inp, p) < 4 THEN Error(p, "Eof", line)
    ELSE Ok(p + 4, Low24(inp, p) + 16777216 * Signed8(inp[p + 4]))

\* An f32 is carried as its bit pattern: le_f32 reinterprets the four bytes.
le_f32(inp, p, line) ==
    IF Remaining(inp, p) < 4 THEN Error(p, "Eof", line)
    ELSE Ok(p + 4, Low24(inp, p) + 16777216 * Signed8(inp[p + 4]))

\* `offset as usize` compared with a buffer length: a u32 carried as a
\* negative number is 2^31 or more, beyond any buffer of the model.
OffsetBeyond(offset, len) == offset < 0 \/ offset > len

-----------------------------------------------------------------------------
(* SHIFT_JIS.decode (encoding_rs, the WHATWG Shift_JIS decoder), to a      *)
(* sequence of code points.  Single bytes are converted as the decoder     *)
(* converts them.  The JIS X 0208 index is not reproduced: the code point  *)
(* of a two-byte sequence is represented by JisBase + its pointer,         *)
(* outside the Unicode range, so that distinct pointers stay distinct and  *)
(* never collide with a single-byte result.  A malformed sequence gives    *)
(* U+FFFD, and an ASCII trail byte of a malformed pair is decoded again.   *)
(* BOM sniffing is not modelled: no text of the model starts with a BOM.   *)

Replacement == 65533

JisBase == 1114112

IsLead(b) == (b >= 129 /\ b <= 159) \/ (b >= 224 /\ b <= 252)

IsTrail(b) == (b >= 64 /\ b <= 126) \/ (b >= 128 /\ b <= 252)

JisPointer(lead, trail) ==
    (lead - (IF lead < 160 THEN 129 ELSE 193)) * 188
        + trail - (IF trail < 127 THEN 64 ELSE 65)

RECURSIVE ShiftJisDecode(_)
ShiftJisDecode(data) ==
    IF data = <<>> THEN <<>>
    ELSE LET b == Head(data)
             t == Tail(data)
         IN  IF b <= 128 THEN <<b>> \o ShiftJisDecode(t)
             ELSE IF b >= 161 /\ b <= 223
                  THEN <<65377 - 161 + b>> \o ShiftJisDecode(t)
             ELSE IF ~IsLead(b) THEN <<Replacement>> \o ShiftJisDecode(t)
             ELSE IF t = <<>> THEN <<Replacement>>
             ELSE IF IsTrail(Head(t))
                  THEN <<JisBase + JisPointer(b, Head(t))>>
                           \o ShiftJisDecode(Tail(t))
             ELSE IF Head(t) < 128
                  THEN <<Replacement>> \o ShiftJisDecode(t)
             ELSE <<Replacement>> \o ShiftJisDecode(Tail(t))

-----------------------------------------------------------------------------
(* le_String: splitn(2, |c| *c == 0).nth(0) is the part of the slice       *)
(* before its first zero byte, the whole slice when it holds none;         *)
(* &i[34..] panics when the slice is shorter than 34 bytes.                *)

StringLen == 34

RECURSIVE FirstZero(_, _)
\* Offset of the first zero byte of the slice (input, p), Len(inp) if none.
FirstZero(inp, p) ==
    IF p >= Len(inp) THEN Len(inp)
    ELSE IF inp[p + 1] = 0 THEN p
    ELSE FirstZero(inp, p + 1)

le_String(inp, p, line) ==
    LET data   == SubSeq(inp, p + 1, FirstZero(inp, p))
        string == ShiftJisDecode(data)
    IN  IF Remaining(inp, p) < StringLen THEN Panic(p, "slice", 155)
        ELSE Ok(p + StringLen, string)

-----------------------------------------------------------------------------
(* declare_main_instructions! / declare_sub_instructions!: the argument    *)
(* types of every opcode, in declaration order.  An opcode without an      *)
(* entry falls to the `_ => unreachable!()` arm.                           *)

Unreachable == <<"unreachable">>

MainArgTypes(opcode) ==
    CASE opcode = 0 -> <<"f32", "f32", "f32", "i16", "i16", "u32">>  \* SpawnEnemy
      [] opcode = 2 -> <<"f32", "f32", "f32", "i16", "i16", "u32">>  \* SpawnEnemyMirrored
      [] opcode = 4 -> <<"f32", "f32", "f32", "i16", "i16", "u32">>  \* SpawnEnemyRandom
      [] opcode = 6 -> <<"f32", "f32", "f32", "i16", "i16", "u32">>  \* SpawnEnemyMirroredRandom
      [] opcode = 8 -> <<>>  \* CallMessage
      [] opcode = 9 -> <<>>  \* WaitMessage
      [] opcode = 10 -> <<"f32", "f32">>  \* ResumeEcl
      [] opcode = 12 -> <<>>  \* WaitForBossDeath
      [] OTHER -> Unreachable

SubArgTypes(opcode) ==
    CASE opcode = 0 -> <<>>  \* Noop
      [] opcode = 1 -> <<"u32">>  \* Destroy
      [] opcode = 2 -> <<"i32", "i32">>  \* RelativeJump
      [] opcode = 3 -> <<"i32", "i32", "i32">>  \* RelativeJumpEx
      [] opcode = 4 -> <<"i32", "i32">>  \* SetInt
      [] opcode = 5 -> <<"i32", "f32">>  \* SetFloat
      [] opcode = 6 -> <<"i32", "i32">>  \* SetRandomInt
      [] opcode = 7 -> <<"i32", "i32", "i32">>  \* SetRandomIntMin
      [] opcode = 8 -> <<"i32", "f32">>  \* SetRandomFloat
      [] opcode = 9 -> <<"i32", "f32", "f32">>  \* SetRandomFloatMin
      [] opcode = 10 -> <<"i32">>  \* StoreX
      [] opcode = 11 -> <<"i32">>  \* StoreY
      [] opcode = 12 -> <<"i32">>  \* StoreZ
      [] opcode = 13 -> <<"i32", "i32", "i32">>  \* AddInt
      [] opcode = 14 -> <<"i32", "i32", "i32">>  \* SubstractInt
      [] opcode = 15 -> <<"i32", "i32", "i32">>  \* MultiplyInt
      [] opcode = 16 -> <<"i32", "i32", "i32">>  \* DivideInt
      [] opcode = 17 -> <<"i32", "i32", "i32">>  \* ModuloInt
      [] opcode = 18 -> <<"i32">>  \* Increment
      [] opcode = 19 -> <<"i32">>  \* Decrement
      [] opcode = 20 -> <<"i32", "f32", "f32">>  \* AddFloat
      [] opcode = 21 -> <<"i32", "f32", "f32">>  \* SubstractFloat
      [] opcode = 22 -> <<"i32", "f32", "f32">>  \* MultiplyFloat
      [] opcode = 23 -> <<"i32", "f32", "f32">>  \* DivideFloat
      [] opcode = 24 -> <<"i32", "f32", "f32">>  \* ModuloFloat
      [] opcode = 25 -> <<"i32", "f32", "f32", "f32", "f32">>  \* GetDirection
      [] opcode = 26 -> <<"i32">>  \* FloatToUnitCircle
      [] opcode = 27 -> <<"i32", "i32">>  \* CompareInts
      [] opcode = 28 -> <<"f32", "f32">>  \* CompareFloats
      [] opcode = 29 -> <<"i32", "i32">>  \* RelativeJumpIfLowerThan
      [] opcode = 30 -> <<"i32", "i32">>  \* RelativeJumpIfLowerOrEqual
      [] opcode = 31 -> <<"i32", "i32">>  \* RelativeJumpIfEqual
      [] opcode = 32 -> <<"i32", "i32">>  \* RelativeJumpIfGreaterThan
      [] opcode = 33 -> <<"i32", "i32">>  \* RelativeJumpIfGreaterOrEqual
      [] opcode = 34 -> <<"i32", "i32">>  \* RelativeJumpIfNotEqual
      [] opcode = 35 -> <<"i32", "i32", "f32">>  \* Call
      [] opcode = 36 -> <<>>  \* Return
      [] opcode = 37 -> <<"i32", "i32", "f32", "i32", "i32">>  \* CallIfSuperior
      [] opcode = 38 -> <<"i32", "i32", "f32", "i32", "i32">>  \* CallIfSuperiorOrEqual
      [] opcode = 39 -> <<"i32", "i32", "f32", "i32", "i32">>  \* CallIfEqual
      [] opcode = 40 -> <<"i32", "i32", "f32", "i32", "i32">>  \* CallIfInferior
      [] opcode = 41 -> <<"i32", "i32", "f32", "i32", "i32">>  \* CallIfInferiorOrEqual
      [] opcode = 42 -> <<"i32", "i32", "f32", "i32", "i32">>  \* CallIfNotEqual
      [] opcode = 43 -> <<"f32", "f32", "f32">>  \* SetPosition
      [] opcode = 45 -> <<"f32", "f32">>  \* SetAngleAndSpeed
      [] opcode = 46 -> <<"f32">>  \* SetRotationSpeed
      [] opcode = 47 -> <<"f32">>  \* SetSpeed
      [] opcode = 48 -> <<"f32">>  \* SetAcceleration
      [] opcode = 49 -> <<"f32", "f32">>  \* SetRandomAngle
      [] opcode = 50 -> <<"f32", "f32">>  \* SetRandomAngleEx
      [] opcode = 51 -> <<"f32", "f32">>  \* TargetPlayer
      [] opcode = 52 -> <<"i32", "f32", "f32">>  \* MoveInDecel
      [] opcode = 56 -> <<"i32", "f32", "f32", "f32">>  \* MoveToLinear
      [] opcode = 57 -> <<"i32", "f32", "f32", "f32">>  \* MoveToDecel
      [] opcode = 59 -> <<"i32", "f32", "f32", "f32">>  \* MoveToAccel
      [] opcode = 61 -> <<"i32">>  \* StopIn
      [] opcode = 63 -> <<"i32">>  \* StopInAccel
      [] opcode = 65 -> <<"f32", "f32", "f32", "f32">>  \* SetScreenBox
      [] opcode = 66 -> <<>>  \* ClearScreenBox
      [] opcode = 67 -> <<"i16", "i16", "i32", "i32", "f32", "f32", "f32", "f32", "u32">>  \* SetBulletAttributes1
      [] opcode = 68 -> <<"i16", "i16", "i32", "i32", "f32", "f32", "f32", "f32", "u32">>  \* SetBulletAttributes2
      [] opcode = 69 -> <<"i16", "i16", "i32", "i32", "f32", "f32", "f32", "f32", "u32">>  \* SetBulletAttributes3
      [] opcode = 70 -> <<"i16", "i16", "i32", "i32", "f32", "f32", "f32", "f32", "u32">>  \* SetBulletAttributes4
      [] opcode = 71 -> <<"i16", "i16", "i32", "i32", "f32", "f32", "f32", "f32", "u32">>  \* SetBulletAttributes5
      [] opcode = 74 -> <<"i16", "i16", "i32", "i32", "f32", "f32", "f32", "f32", "u32">>  \* SetBulletAttributes6
      [] opcode = 75 -> <<"i16", "i16", "i32", "i32", "f32", "f32", "f32", "f32", "u32">>  \* SetBulletAttributes7
      [] opcode = 76 -> <<"i32">>  \* SetBulletInterval
      [] opcode = 77 -> <<"i32">>  \* SetBulletIntervalEx
      [] opcode = 78 -> <<>>  \* DelayAttack
      [] opcode = 79 -> <<>>  \* NoDelayAttack
      [] opcode = 81 -> <<"f32", "f32", "f32">>  \* SetBulletLaunchOffset
      [] opcode = 82 -> <<"i32", "i32", "i32", "i32", "f32", "f32", "f32", "f32">>  \* SetExtendedBulletAttributes
      [] opcode = 83 -> <<>>  \* ChangeBulletsInStarBonus
      [] opcode = 84 -> <<"i32">>  \* SetBulletSound
      [] opcode = 85 -> <<"i16", "i16", "f32", "f32", "f32", "f32", "f32", "f32", "i32", "i32", "i32", "i32", "i32", "i32">>  \* NewLaser
      [] opcode = 86 -> <<"i16", "i16", "f32", "f32", "f32", "f32", "f32", "f32", "i32", "i32", "i32", "i32", "i32", "i32">>  \* NewLaserTowardsPlayer
      [] opcode = 87 -> <<"u32">>  \* SetUpcomingLaserId
      [] opcode = 88 -> <<"u32", "f32">>  \* AlterLaserAngle
      [] opcode = 90 -> <<"u32", "f32", "f32", "f32">>  \* RepositionLaser
      [] opcode = 91 -> <<"u32">>  \* LaserSetCompare
      [] opcode = 92 -> <<"u32">>  \* CancelLaser
      [] opcode = 93 -> <<"i16", "i16", "String">>  \* SetSpellcard
      [] opcode = 94 -> <<>>  \* EndSpellcard
      [] opcode = 95 -> <<"i32", "f32", "f32", "f32", "i16", "i16", "i32">>  \* SpawnEnemy
      [] opcode = 96 -> <<>>  \* KillAllEnemies
      [] opcode = 97 -> <<"i32">>  \* SetAnim
      [] opcode = 98 -> <<"i16", "i16", "i16", "i16", "i16", "i16">>  \* SetMultipleAnims
      [] opcode = 99 -> <<"i32", "i32">>  \* SetAuxAnm
      [] opcode = 100 -> <<"i32">>  \* SetDeathAnim
      [] opcode = 101 -> <<"i32">>  \* SetBossMode
      [] opcode = 102 -> <<"i32", "f32", "f32", "f32", "f32">>  \* CreateSquares
      [] opcode = 103 -> <<"f32", "f32", "f32">>  \* SetHitbox
      [] opcode = 104 -> <<"i32">>  \* SetCollidable
      [] opcode = 105 -> <<"i32">>  \* SetDamageable
      [] opcode = 106 -> <<"i32">>  \* PlaySound
      [] opcode = 107 -> <<"u32">>  \* SetDeathFlags
      [] opcode = 108 -> <<"i32">>  \* SetDeathCallback
      [] opcode = 109 -> <<"i32", "i32">>  \* MemoryWriteInt
      [] opcode = 111 -> <<"i32">>  \* SetLife
      [] opcode = 112 -> <<"i32">>  \* SetElapsedTime
      [] opcode = 113 -> <<"i32">>  \* SetLowLifeTrigger
      [] opcode = 114 -> <<"i32">>  \* SetLowLifeCallback
      [] opcode = 115 -> <<"i32">>  \* SetTimeout
      [] opcode = 116 -> <<"i32">>  \* SetTimeoutCallback
      [] opcode = 117 -> <<"i32">>  \* SetTouchable
      [] opcode = 118 -> <<"i32", "u32", "u8", "u8", "u8", "u8">>  \* DropParticles
      [] opcode = 119 -> <<"i32">>  \* DropBonus
      [] opcode = 120 -> <<"i32">>  \* SetAutomaticOrientation
      [] opcode = 121 -> <<"i32", "i32">>  \* CallSpecialFunction
      [] opcode = 122 -> <<"i32">>  \* SetSpecialFunctionCallback
      [] opcode = 123 -> <<"i32">>  \* SkipFrames
      [] opcode = 124 -> <<"i32">>  \* DropSpecificBonus
      [] opcode = 125 -> <<>>  \* UNK_ins125
      [] opcode = 126 -> <<"i32">>  \* SetRemainingLives
      [] opcode = 127 -> <<"i32">>  \* UNK_ins127
      [] opcode = 128 -> <<"i32">>  \* Interrupt
      [] opcode = 129 -> <<"i32", "i32">>  \* InterruptAux
      [] opcode = 130 -> <<"i32">>  \* UNK_ins130
      [] opcode = 131 -> <<"f32", "f32", "i32", "i32", "i32", "i32">>  \* SetDifficultyCoeffs
      [] opcode = 132 -> <<"i32">>  \* SetInvisible
      [] opcode = 133 -> <<>>  \* CopyCallbacks
      [] opcode = 134 -> <<>>  \* UNK_ins134
      [] opcode = 135 -> <<"i32">>  \* EnableSpellcardBonus
      [] OTHER -> Unreachable

\* concat_idents!(le_, $arg_type)(i)
ParseArg(type, inp, p, line) ==
    CASE type = "u8"     -> le_u8(inp, p, line)
      [] type = "i16"    -> le_i16(inp, p, line)
      [] type = "i32"    -> le_i32(inp, p, line)
      [] type = "u32"    -> le_u32(inp, p, line)
      [] type = "f32"    -> le_f32(inp, p, line)
      [] type = "String" -> le_String(inp, p, line)

RECURSIVE ParseArgs(_, _, _, _, _)
\* The $( let (i2, $arg) = le_...(i)?; i = i2; )* of a match arm.
ParseArgs(types, inp, p, args, line) ==
    IF types = <<>> THEN Ok(p, args)
    ELSE LET r == ParseArg(Head(types), inp, p, line)
         IN  IF r.kind # "Ok" THEN r
             ELSE ParseArgs(Tail(types), inp, r.rest, Append(args, r.out), line)

parse_main_instruction_args(inp, p, opcode) ==
    LET types == MainArgTypes(opcode)
        r     == ParseArgs(types, inp, p, <<>>, 137)
    IN  IF types = Unreachable THEN Panic(p, "unreachable", 143)
        ELSE IF r.kind # "Ok" THEN r
        ELSE Ok(r.rest, [opcode |-> opcode, args |-> r.out])

parse_sub_instruction_args(inp, p, opcode) ==
    LET types == SubArgTypes(opcode)
        r     == ParseArgs(types, inp, p, <<>>, 175)
    IN  IF types = Unreachable THEN Panic(p, "unreachable", 181)
        ELSE IF r.kind # "Ok" THEN r
        ELSE Ok(r.rest, [opcode |-> opcode, args |-> r.out])

-----------------------------------------------------------------------------
(* bitflags! Rank.  from_bits returns None when the value has a bit that   *)
(* no declared flag has, and Some(value) otherwise.                        *)

EASY == 256

NORMAL == 512

HARD == 1024

LUNATIC == 2048

ALL == 65280

RECURSIVE BitAnd(_, _)
BitAnd(a, b) ==
    IF a = 0 \/ b = 0 THEN 0
    ELSE (a % 2) * (b % 2) + 2 * BitAnd(a \div 2, b \div 2)

RECURSIVE BitOr(_, _)
BitOr(a, b) ==
    IF a = 0 THEN b
    ELSE IF b = 0 THEN a
    ELSE (IF a % 2 = 1 \/ b % 2 = 1 THEN 1 ELSE 0)
             + 2 * BitOr(a \div 2, b \div 2)

\* Rank::all().bits()
RankAll == BitOr(EASY, BitOr(NORMAL, BitOr(HARD, BitOr(LUNATIC, ALL))))

None == [some |-> FALSE, bits |-> 0]

Some(bits) == [some |-> TRUE, bits |-> bits]

\* Rank::from_bits on a u16
Rank_from_bits(bits) ==
    IF BitAnd(bits, 65535 - RankAll) = 0 THEN Some(bits) ELSE None

-----------------------------------------------------------------------------
(* parse_sub_instruction and parse_main_instruction on the slice           *)
(* (input, p).  `input.len() - i.len()` is a.rest - p.                     *)

\* Faulty variant of parse_sub_instruction, without the assert_eq of line
\* 340: a record is yielded whatever its size field says.  C10 fails on it.
parse_sub_instruction_noassert(inp, p) ==
    LET time       == le_i32(inp, p, 332)
        opcode     == le_u16(inp, time.rest, 332)
        size       == le_u16(inp, opcode.rest, 337)
        rank_mask  == le_u16(inp, size.rest, 337)
        param_mask == le_u16(inp, rank_mask.rest, 337)
        rank       == Rank_from_bits(rank_mask.out)
        instr      == parse_sub_instruction_args(inp, param_mask.rest, opcode.out)
    IN  IF time.kind # "Ok" THEN Error(p, "Eof", 332)
        ELSE IF opcode.kind # "Ok" THEN Error(time.rest, "Eof", 332)
        ELSE IF time.out = -1 \/ opcode.out = 65535
             THEN Error(opcode.rest, "Eof", 334)
        ELSE IF size.kind # "Ok" THEN size
        ELSE IF rank_mask.kind # "Ok" THEN rank_mask
        ELSE IF param_mask.kind # "Ok" THEN param_mask
        ELSE IF ~rank.some THEN Panic(param_mask.rest, "unwrap", 338)
        ELSE IF instr.kind # "Ok" THEN instr
        ELSE Ok(instr.rest, [time       |-> time.out,
                             rank_mask  |-> rank.bits,
                             param_mask |-> param_mask.out,
                             instr      |-> instr.out,
                             at         |-> p])

parse_sub_instruction(inp, p) ==
    LET time       == le_i32(inp, p, 332)
        opcode     == le_u16(inp, time.rest, 332)
        size       == le_u16(inp, opcode.rest, 337)
        rank_mask  == le_u16(inp, size.rest, 337)
        param_mask == le_u16(inp, rank_mask.rest, 337)
        rank       == Rank_from_bits(rank_mask.out)
        instr      == parse_sub_instruction_args(inp, param_mask.rest, opcode.out)
    IN  IF time.kind # "Ok" THEN Error(p, "Eof", 332)
        ELSE IF opcode.kind # "Ok" THEN Error(time.rest, "Eof", 332)
        ELSE IF time.out = -1 \/ opcode.out = 65535
             THEN Error(opcode.rest, "Eof", 334)
        ELSE IF size.kind # "Ok" THEN size
        ELSE IF rank_mask.kind # "Ok" THEN rank_mask
        ELSE IF param_mask.kind # "Ok" THEN param_mask
        ELSE IF ~rank.some THEN Panic(param_mask.rest, "unwrap", 338)
        ELSE IF instr.kind # "Ok" THEN instr
        ELSE IF instr.rest - p # size.out
             THEN Panic(instr.rest, "assert_eq", 340)
        ELSE Ok(instr.rest, [time       |-> time.out,
                             rank_mask  |-> rank.bits,
                             param_mask |-> param_mask.out,
                             instr      |-> instr.out,
                             at         |-> p])

parse_main_instruction(inp, p) ==
    LET time   == le_u16(inp, p, 353)
        sub    == le_u16(inp, time.rest, 353)
        opcode == le_u16(inp, sub.rest, 358)
        size   == le_u16(inp, opcode.rest, 358)
        instr  == parse_main_instruction_args(inp, size.rest, opcode.out)
    IN  IF time.kind # "Ok" THEN Error(p, "Eof", 353)
        ELSE IF sub.kind # "Ok" THEN Error(time.rest, "Eof", 353)
        ELSE IF time.out = 65535 /\ sub.out = 4
             THEN Error(sub.rest, "Eof", 355)
        ELSE IF opcode.kind # "Ok" THEN opcode
        ELSE IF size.kind # "Ok" THEN size
        ELSE IF instr.kind # "Ok" THEN instr
        ELSE IF instr.rest - p # size.out
             THEN Panic(instr.rest, "assert_eq", 361)
        ELSE Ok(instr.rest, [time  |-> time.out,
                             sub   |-> sub.out,
                             instr |-> instr.out,
                             at    |-> p])

-----------------------------------------------------------------------------
(* The header of parse_ecl: sub_count, main_count, count(le_u32, 3),       *)
(* count(le_u32, sub_count).                                               *)

RECURSIVE count_le_u32(_, _, _, _)
\* count(le_u32, n) on the slice (input, p), collecting into out
count_le_u32(inp, p, n, out) ==
    IF n = 0 THEN Ok(p, out)
    ELSE LET r == le_u32(inp, p, 386)
         IN  IF r.kind # "Ok" THEN r
             ELSE count_le_u32(inp, r.rest, n - 1, Append(out, r.out))

MainSlots == 3

\* Faulty variant of parse_header: the Sub offsets are read from where the
\* Main offsets start, not from where they end.  C8 fails on it.
parse_header_overlap(inp) ==
    LET sub_count  == le_u16(inp, 0, 375)
        main_count == le_u16(inp, sub_count.rest, 375)
        mo         == count_le_u32(inp, main_count.rest, MainSlots, <<>>)
        so         == count_le_u32(inp, main_count.rest, sub_count.out, <<>>)
    IN  IF sub_count.kind # "Ok" THEN sub_count
        ELSE IF main_count.kind # "Ok" THEN main_count
        ELSE IF main_count.out # 0 THEN Error(main_count.rest, "Eof", 380)
        ELSE IF mo.kind # "Ok" THEN mo
        ELSE IF so.kind # "Ok" THEN so
        ELSE Ok(so.rest, [main_offsets |-> mo.out, sub_offsets |-> so.out])

parse_header(inp) ==
    LET sub_count  == le_u16(inp, 0, 375)
        main_count == le_u16(inp, sub_count.rest, 375)
        mo         == count_le_u32(inp, main_count.rest, MainSlots, <<>>)
        so         == count_le_u32(inp, mo.rest, sub_count.out, <<>>)
    IN  IF sub_count.kind # "Ok" THEN sub_count
        ELSE IF main_count.kind # "Ok" THEN main_count
        ELSE IF main_count.out # 0 THEN Error(main_count.rest, "Eof", 380)
        ELSE IF mo.kind # "Ok" THEN mo
        ELSE IF so.kind # "Ok" THEN so
        ELSE Ok(so.rest, [main_offsets |-> mo.out, sub_offsets |-> so.out])

-----------------------------------------------------------------------------
(* The buffers the decoder is run on.  Any byte sequence is a legal        *)
(* argument of Ecl::from_slice; the model runs it on files assembled from  *)
(* a header and a body of records taken from two small menus (well-formed  *)
(* records, the end-of-sequence records, and records broken in one way     *)
(* each), and on every prefix of one well-formed file.                     *)

MaxSubs == 2

MaxChunks == 2

U16(v) == <<v % 256, v \div 256>>

U32(v) == <<v % 256, (v \div 256) % 256, (v \div 65536) % 256, v \div 16777216>>

I32(v) ==
    IF v >= 0 THEN U32(v)
    ELSE LET w == (v + 2147483647) + 1
         IN  <<w % 256, (w \div 256) % 256, (w \div 65536) % 256,
               (w \div 16777216) + 128>>

SubRecord(time, opcode, size, rank_mask, param_mask, args) ==
    I32(time) \o U16(opcode) \o U16(size) \o U16(rank_mask) \o U16(param_mask)
        \o args

MainRecord(time, sub, opcode, size, args) ==
    U16(time) \o U16(sub) \o U16(opcode) \o U16(size) \o args

\* 34 bytes of text: "A", half-width katakana, a zero byte, then leftovers.
TextWithZero == <<65, 177, 0>> \o [j \in 1..(StringLen - 3) |-> 66]

\* 34 bytes of text without a zero byte.
TextNoZero == [j \in 1..StringLen |-> IF j % 2 = 1 THEN 67 ELSE 178]

SubNoop == SubRecord(0, 0, 12, 65280, 0, <<>>)

SubParticles ==
    SubRecord(30, 118, 24, 768, 255, I32(-2) \o <<1, 2, 3, 200>> \o <<9, 8, 7, 6>>)

SubSentinel == SubRecord(-1, 65535, 12, 65280, 255, <<>>)

SubTimeOnly == SubRecord(-1, 0, 12, 65280, 0, <<>>)

SubOpcodeOnly == SubRecord(60, 65535, 12, 65280, 0, <<>>)

SubBadRank == SubRecord(0, 0, 12, 1, 0, <<>>)

SubBadSize == SubRecord(0, 0, 16, 65280, 0, <<>>)

SubUnknown == SubRecord(0, 44, 12, 65280, 0, <<>>)

SubSpell == SubRecord(0, 93, 50, 65280, 0, U16(5) \o U16(6) \o TextWithZero)

SubSpellNoZero == SubRecord(0, 93, 50, 65280, 0, U16(5) \o U16(6) \o TextNoZero)

\* A Destroy record cut in the middle of its argument.
SubCut == SubRecord(0, 1, 16, 65280, 0, <<1, 0>>)

SubMenu ==
    {SubNoop, SubParticles, SubSentinel, SubTimeOnly, SubOpcodeOnly, SubBadRank,
     SubBadSize, SubUnknown, SubSpellNoZero, SubCut}

MainMessage == MainRecord(10, 0, 8, 8, <<>>)

MainSpawn ==
    MainRecord(20, 1, 0, 28,
               U32(1) \o U32(2) \o U32(3) \o U16(40) \o U16(65535) \o U32(500))

MainSentinel == MainRecord(65535, 4, 0, 0, <<>>)

MainUnknown == MainRecord(0, 0, 1, 8, <<>>)

MainBadSize == MainRecord(0, 0, 8, 9, <<>>)

\* A record header cut after three bytes.
MainCut == <<5, 0, 0>>

MainMenu ==
    {MainMessage, MainSpawn, MainSentinel, MainUnknown, MainBadSize, MainCut}

SeqsUpTo(S, n) == UNION {[1..m -> S] : m \in 0..n}

RECURSIVE Flatten(_)
Flatten(chunks) ==
    IF chunks = <<>> THEN <<>> ELSE Head(chunks) \o Flatten(Tail(chunks))

\* Offset of chunk j of a body laid out from offset base (j = Len + 1: its end).
ChunkStart(base, chunks, j) == base + Len(Flatten(SubSeq(chunks, 1, j - 1)))

Header(sub_count, main_count, mo, so) ==
    U16(sub_count) \o U16(main_count)
        \o Flatten([j \in 1..Len(mo) |-> I32(mo[j])])
        \o Flatten([j \in 1..Len(so) |-> I32(so[j])])

HeaderLen(n) == 4 + 4 * MainSlots + 4 * n

\* Files of Sub sequences: every Sub offset is the start of a chunk; no Main.
SubFiles ==
    UNION { LET base   == HeaderLen(n)
                starts == {ChunkStart(base, body, j) : j \in 1..Len(body)}
            IN  { Header(n, 0, <<0, 0, 0>>, so) \o Flatten(body)
                      : so \in [1..n -> starts] }
            : n \in 0..MaxSubs, body \in SeqsUpTo(SubMenu, MaxChunks) }

\* Files of Main sequences: every Main offset is zero or the start of a
\* chunk; no Sub.
MainFiles ==
    UNION { LET base   == HeaderLen(0)
                starts == {ChunkStart(base, body, j) : j \in 1..Len(body)}
            IN  { Header(0, 0, mo, <<>>) \o Flatten(body)
                      : mo \in [1..MainSlots -> {0} \cup starts] }
            : body \in SeqsUpTo(MainMenu, MaxChunks) }

\* Files whose offsets point anywhere: into the header, at the end of the
\* buffer, past it, or 2^32 - 1; and files whose main_count is not zero.
OffsetFiles ==
    LET body == SubNoop \o SubSentinel \o MainMessage \o MainSentinel
        end  == HeaderLen(1) + Len(body)
        offs == {0, HeaderLen(1), HeaderLen(1) + Len(SubNoop \o SubSentinel),
                 end, end + 1, -1}
    IN  { Header(1, main_count, <<mo, 0, 0>>, <<so>>) \o body
              : main_count \in {0, 1}, mo \in offs, so \in offs }

\* Files of one Sub chunk and one Main chunk.
MixedFiles ==
    UNION { { Header(1, 0, mo, <<HeaderLen(1)>>) \o sm[1] \o sm[2]
                  : mo \in [1..MainSlots -> {0, HeaderLen(1) + Len(sm[1])}] }
            : sm \in SubMenu \X MainMenu }

\* A well-formed file of two Subs and one Main.
Reference ==
    LET sub1 == SubNoop \o SubParticles \o SubSentinel
        sub2 == SubSpell \o SubSentinel
        main == MainSpawn \o MainMessage \o MainSentinel
        b    == HeaderLen(2)
    IN  Header(2, 0, <<b + Len(sub1) + Len(sub2), 0, 0>>, <<b, b + Len(sub1)>>)
            \o sub1 \o sub2 \o main

Prefixes == {SubSeq(Reference, 1, n) : n \in 0..Len(Reference)}

Inputs == SubFiles \cup MainFiles \cup MixedFiles \cup OffsetFiles \cup Prefixes

-----------------------------------------------------------------------------
(* parse_ecl as a state machine.  pc:                                      *)
(*   "header"  before lines 375-386                                        *)
(*   "subs"    at the head of the for loop over sub_offsets (390)          *)
(*   "sub"     inside many0(parse_sub_instruction) (346)                   *)
(*   "mains"   at the head of the for loop over main_offsets (397)         *)
(*   "main"    inside many0(parse_main_instruction) (367)                  *)
(*   "done"    Ecl::from_slice has returned, or the thread has panicked    *)

NoResult == [kind |-> "None", out |-> "", line |-> 0]

NoCall ==
    [table |-> "none", at |-> 0, kind |-> "None", rest |-> 0, out |-> "",
     line |-> 0]

Called(table, p, r) ==
    [table |-> table, at |-> p, kind |-> r.kind, rest |-> r.rest, out |-> r.out,
     line |-> r.line]

Returned(r) == [kind |-> r.kind, out |-> r.out, line |-> r.line]

LogEntry(table, slot, offset) ==
    [table |-> table, slot |-> slot, offset |-> offset, stop |-> 0]

\* The log with the line that ended the sequence in progress.
Stopped(l, line) == [l EXCEPT ![Len(l)].stop = line]

Init ==
    /\ input \in Inputs
    /\ pc = "header"
    /\ sub_offsets = <<>>
    /\ main_offsets = <<>>
    /\ k = 1
    /\ cur = 0
    /\ acc = <<>>
    /\ subs = <<>>
    /\ mains = <<>>
    /\ result = NoResult
    /\ last = NoCall
    /\ log = <<>>

\* Lines 375-386: the counts and the two offset arrays.
ParseHeader ==
    /\ pc = "header"
    /\ LET r == parse_header(input)
       IN  IF r.kind = "Ok"
           THEN /\ pc' = "subs"
                /\ main_offsets' = r.out.main_offsets
                /\ sub_offsets' = r.out.sub_offsets
                /\ result' = result
           ELSE /\ pc' = "done"
                /\ result' = Returned(r)
                /\ UNCHANGED <<main_offsets, sub_offsets>>
    /\ UNCHANGED <<input, k, cur, acc, subs, mains, last, log>>

\* Lines 390-391: the next Sub offset, and the slice input[offset..].
NextSub ==
    /\ pc = "subs"
    /\ IF k > Len(sub_offsets)
       THEN /\ pc' = "mains"
            /\ k' = 1
            /\ UNCHANGED <<cur, acc, result, log>>
       ELSE LET offset == sub_offsets[k]
            IN  /\ log' = Append(log, LogEntry("sub", k, offset))
                /\ IF OffsetBeyond(offset, Len(input))
                   THEN /\ pc' = "done"
                        /\ result' = Returned(Panic(0, "slice", 391))
                        /\ UNCHANGED <<k, cur, acc>>
                   ELSE /\ pc' = "sub"
                        /\ cur' = offset
                        /\ acc' = <<>>
                        /\ UNCHANGED <<k, result>>
    /\ UNCHANGED <<input, sub_offsets, main_offsets, subs, mains, last>>

\* One iteration of many0(parse_sub_instruction) (346); when many0 returns,
\* the rest of parse_sub (347-348) and of the loop body (391-392).
SubStep ==
    /\ pc = "sub"
    /\ LET r == parse_sub_instruction(input, cur)
       IN  /\ last' = Called("sub", cur, r)
           /\ IF r.kind = "Ok" /\ r.rest # cur
              THEN /\ cur' = r.rest
                   /\ acc' = Append(acc, r.out)
                   /\ UNCHANGED <<pc, k, subs, result, log>>
              ELSE IF r.kind = "Ok"
              THEN \* many0: the parser consumed nothing
                   /\ pc' = "done"
                   /\ result' = Returned(Error(cur, "Many0", 346))
                   /\ UNCHANGED <<k, cur, acc, subs, log>>
              ELSE IF r.kind = "Error"
              THEN /\ subs' = Append(subs, [instructions |-> acc])
                   /\ k' = k + 1
                   /\ pc' = "subs"
                   /\ log' = Stopped(log, r.line)
                   /\ UNCHANGED <<cur, acc, result>>
              ELSE /\ pc' = "done"
                   /\ result' = Returned(r)
                   /\ UNCHANGED <<k, cur, acc, subs, log>>
    /\ UNCHANGED <<input, sub_offsets, main_offsets, mains>>

\* Faulty variant of NextMain: a zero offset skips its slot (`continue`)
\* where the code leaves the loop (`break`).  C7 fails on it.
NextMain_continue ==
    /\ pc = "mains"
    /\ IF k > Len(main_offsets)
       THEN /\ pc' = "done"
            /\ result' = Returned(Ok(Len(input), "Ecl"))
            /\ UNCHANGED <<k, cur, acc, log>>
       ELSE IF main_offsets[k] = 0
       THEN /\ k' = k + 1
            /\ UNCHANGED <<pc, cur, acc, result, log>>
       ELSE LET offset == main_offsets[k]
            IN  /\ log' = Append(log, LogEntry("main", k, offset))
                /\ IF OffsetBeyond(offset, Len(input))
                   THEN /\ pc' = "done"
                        /\ result' = Returned(Panic(0, "slice", 401))
                        /\ UNCHANGED <<k, cur, acc>>
                   ELSE /\ pc' = "main"
                        /\ cur' = offset
                        /\ acc' = <<>>
                        /\ UNCHANGED <<k, result>>
    /\ UNCHANGED <<input, sub_offsets, main_offsets, subs, mains, last>>

\* Lines 397-401 and 405-409: the next Main offset, the break at a zero
\* offset, the slice input[offset..], and the return of the Ecl.
NextMain ==
    /\ pc = "mains"
    /\ IF k > Len(main_offsets) \/ main_offsets[k] = 0
       THEN /\ pc' = "done"
            /\ result' = Returned(Ok(Len(input), "Ecl"))
            /\ UNCHANGED <<k, cur, acc, log>>
       ELSE LET offset == main_offsets[k]
            IN  /\ log' = Append(log, LogEntry("main", k, offset))
                /\ IF OffsetBeyond(offset, Len(input))
                   THEN /\ pc' = "done"
                        /\ result' = Returned(Panic(0, "slice", 401))
                        /\ UNCHANGED <<k, cur, acc>>
                   ELSE /\ pc' = "main"
                        /\ cur' = offset
                        /\ acc' = <<>>
                        /\ UNCHANGED <<k, result>>
    /\ UNCHANGED <<input, sub_offsets, main_offsets, subs, mains, last>>

\* One iteration of many0(parse_main_instruction) (367); when many0
\* returns, the rest of parse_main (368-369) and of the loop body (401-402).
MainStep ==
    /\ pc = "main"
    /\ LET r == parse_main_instruction(input, cur)
       IN  /\ last' = Called("main", cur, r)
           /\ IF r.kind = "Ok" /\ r.rest # cur
              THEN /\ cur' = r.rest
                   /\ acc' = Append(acc, r.out)
                   /\ UNCHANGED <<pc, k, mains, result, log>>
              ELSE IF r.kind = "Ok"
              THEN /\ pc' = "done"
                   /\ result' = Returned(Error(cur, "Many0", 367))
                   /\ UNCHANGED <<k, cur, acc, mains, log>>
              ELSE IF r.kind = "Error"
              THEN /\ mains' = Append(mains, [instructions |-> acc])
                   /\ k' = k + 1
                   /\ pc' = "mains"
                   /\ log' = Stopped(log, r.line)
                   /\ UNCHANGED <<cur, acc, result>>
              ELSE /\ pc' = "done"
                   /\ result' = Returned(r)
                   /\ UNCHANGED <<k, cur, acc, mains, log>>
    /\ UNCHANGED <<input, sub_offsets, main_offsets, subs>>

Next == ParseHeader \/ NextSub \/ SubStep \/ NextMain \/ MainStep

Spec == Init /\ [][Next]_vars
-----------------------------------------------------------------------------
(* The file layout, read straight from the bytes of the buffer.            *)

Fits(p, n) == p + n <= Len(input)

U16At(p) == input[p + 1] + 256 * input[p + 2]

I32At(p) ==
    input[p + 1] + 256 * input[p + 2] + 65536 * input[p + 3]
        + 16777216 * (IF input[p + 4] >= 128 THEN input[p + 4] - 256
                      ELSE input[p + 4])

\* time: i32, opcode, size, rank_mask, param_mask: u16
SubHeaderLen == 4 + 2 + 2 + 2 + 2

\* time, sub, opcode, size: u16
MainHeaderLen == 2 + 2 + 2 + 2

Width(type) ==
    CASE type = "u8" -> 1
      [] type = "i16" -> 2
      [] type \in {"i32", "u32", "f32"} -> 4
      [] type = "String" -> StringLen

RECURSIVE ArgsLen(_)
ArgsLen(types) ==
    IF types = <<>> THEN 0 ELSE Width(Head(types)) + ArgsLen(Tail(types))

MainOpcodes == {0, 2, 4, 6, 8, 9, 10, 12}

KnownOpcode(table, opcode) ==
    IF table = "sub" THEN SubArgTypes(opcode) # Unreachable
    ELSE opcode \in MainOpcodes

\* The header of the record the latest parser call started on is in the buffer.
HeaderInBuffer ==
    /\ last.table # "none"
    /\ Fits(last.at, IF last.table = "sub" THEN SubHeaderLen ELSE MainHeaderLen)

\* In both record layouts the opcode is at byte 4 and the size at byte 6.
OpcodeOfLast == U16At(last.at + 4)

SizeOfLast == U16At(last.at + 6)

\* rank_mask of a Sub record
RankOfLast == U16At(last.at + 8)

\* The end-of-sequence record as the format defines it.
SentinelAtLast ==
    IF last.table = "sub"
    THEN I32At(last.at) = -1 /\ U16At(last.at + 4) = 65535
    ELSE U16At(last.at) = 65535 /\ U16At(last.at + 2) = 4

RankBitsValid(raw) == raw % 256 = 0

\* Length of the record at last.at, header and arguments, by its opcode.
LengthOfLast ==
    (IF last.table = "sub" THEN SubHeaderLen ELSE MainHeaderLen)
        + ArgsLen(IF last.table = "sub" THEN SubArgTypes(OpcodeOfLast)
                  ELSE MainArgTypes(OpcodeOfLast))

\* The latest parser call started on a record that is no sentinel, has a
\* legal rank_mask (Sub) and a known opcode, and lies whole in the buffer.
WholeRecordAtLast ==
    /\ HeaderInBuffer
    /\ ~SentinelAtLast
    /\ last.table = "sub" => RankBitsValid(RankOfLast)
    /\ KnownOpcode(last.table, OpcodeOfLast)
    /\ Fits(last.at, LengthOfLast)

Failed(errkind) ==
    pc = "done" /\ result.kind = "Error" /\ result.out = errkind

-----------------------------------------------------------------------------
\* C1: whatever the bytes given to Ecl::from_slice, the call returns a script
\* or an error value: it never panics (no failed unwrap, assert_eq,
\* unreachable! or out-of-range slice).
C1_NeverAborts == result.kind # "Panic"

\* C2: the Sub decoder ends a sequence at a record header exactly when
\* time = -1 and opcode = 0xffff; that record is not in the output and
\* nothing after its opcode is read.  A header where only one of the two
\* holds does not end the sequence.
C2_SentinelExact ==
    (last.table = "sub" /\ last.kind = "Error" /\ last.line = 334)
        => /\ SentinelAtLast
           /\ last.rest = last.at + 6
           /\ \A j \in 1..Len(acc) : acc[j].at # last.at

\* C3: a Sub or Main record with a known opcode whose consumed bytes differ
\* from its size field makes decode return SizeMismatch, without panicking.
C3_SizeMismatchIsError ==
    (WholeRecordAtLast /\ LengthOfLast # SizeOfLast) => Failed("SizeMismatch")

\* C4: a non-sentinel record whose opcode is not in its table makes decode
\* return UnknownOpcode.
C4_UnknownOpcodeIsError ==
    ( /\ HeaderInBuffer
      /\ ~SentinelAtLast
      /\ last.table = "sub" => RankBitsValid(RankOfLast)
      /\ ~KnownOpcode(last.table, OpcodeOfLast) )
        => Failed("UnknownOpcode")

\* C5: a non-sentinel Sub record whose rank_mask has a bit outside 0xff00
\* makes decode return InvalidRankBits; a rank_mask within 0xff00 is stored
\* unchanged in the CallSub.
C5_InvalidRankIsError ==
    (last.table = "sub" /\ HeaderInBuffer /\ ~SentinelAtLast)
        => /\ ~RankBitsValid(RankOfLast) => Failed("InvalidRankBits")
           /\ (RankBitsValid(RankOfLast) /\ last.kind = "Ok")
                  => last.out.rank_mask = RankOfLast

\* C6: when the buffer ends inside a record before the sentinel is reached,
\* the whole decode fails with that error; decode never returns a script
\* holding only the records decoded before it.
C6_TruncationFails ==
    /\ (last.kind = "Error" /\ last.line \notin {334, 355})
           => (pc = "done" /\ result.kind = "Error")
    /\ result.kind = "Ok"
           => \A j \in 1..Len(log) : log[j].stop \in {334, 355}

\* The main_offsets and sub_offsets arrays of the header, from the bytes.
MainOffsetAt(j) == I32At(4 + 4 * (j - 1))

SubOffsetAt(j) == I32At(4 + 4 * MainSlots + 4 * (j - 1))

\* Number of non-zero Main offsets before the first zero one.
LeadingMains ==
    Cardinality({j \in 1..MainSlots : \A i \in 1..j : MainOffsetAt(i) # 0})

\* The log entries of one table, in order.
Entries(table) == SelectSeq(log, LAMBDA e : e.table = table)

\* A decoded sequence starts at `offset` and its records follow one another,
\* each at the previous one plus that one's size field.
Contiguous(seq, offset) ==
    \A j \in 1..Len(seq.instructions) :
        seq.instructions[j].at =
            IF j = 1 THEN offset
            ELSE seq.instructions[j - 1].at + U16At(seq.instructions[j - 1].at + 6)

\* C7: on success the Main list holds one Main per non-zero Main offset
\* before the first zero offset, in the order of the offset array, each
\* decoded from its offset; no slot after a zero offset is ever dereferenced.
C7_MainsUpToFirstZero ==
    /\ \A j \in 1..Len(Entries("main")) :
           /\ Entries("main")[j].slot = j
           /\ Entries("main")[j].offset = MainOffsetAt(j)
           /\ j <= LeadingMains
    /\ result.kind = "Ok"
           => /\ Len(mains) = LeadingMains
              /\ Len(Entries("main")) = LeadingMains
              /\ \A j \in 1..Len(mains) : Contiguous(mains[j], MainOffsetAt(j))

\* A successful decode of a file whose second Main offset is zero and whose
\* third is not.
C7_Witness ==
    /\ result.kind = "Ok"
    /\ MainOffsetAt(1) # 0 /\ MainOffsetAt(2) = 0 /\ MainOffsetAt(3) # 0
    /\ Len(mains) = 1
    /\ Len(mains[1].instructions) > 0

\* C8: on success the Sub list holds sub_count Subs, the k-th decoded from
\* the k-th Sub offset, none skipped.
C8_OneSubPerOffset ==
    result.kind = "Ok"
        => /\ Len(subs) = U16At(0)
           /\ Len(Entries("sub")) = U16At(0)
           /\ \A j \in 1..Len(subs) :
                  /\ Entries("sub")[j].slot = j
                  /\ Entries("sub")[j].offset = SubOffsetAt(j)
                  /\ Contiguous(subs[j], SubOffsetAt(j))

\* A successful decode of two Subs of different lengths.
C8_Witness ==
    /\ result.kind = "Ok"
    /\ Len(subs) = 2
    /\ SubOffsetAt(1) # SubOffsetAt(2)
    /\ Len(subs[1].instructions) = 2
    /\ Len(subs[2].instructions) = 1

\* The text of the 34-byte field at offset p: the bytes before the first
\* zero byte of the field, all 34 when it holds none.
RECURSIVE FieldText(_, _)
FieldText(p, n) ==
    IF n = 0 \/ input[p + 1] = 0 THEN <<>>
    ELSE <<input[p + 1]>> \o FieldText(p + 1, n - 1)

\* C9: le_String uses only the 34 bytes at the cursor: the text is the
\* conversion of the bytes before the first zero byte of that window, and
\* the cursor moves on by 34 bytes.  (SetSpellcard, opcode 93, is the one
\* instruction with a text field; it follows two i16 arguments.)
C9_TextWithinWindow ==
    (last.table = "sub" /\ last.kind = "Ok" /\ last.out.instr.opcode = 93)
        => /\ last.out.instr.args[3]
                  = ShiftJisDecode(FieldText(last.at + SubHeaderLen + 4, StringLen))
           /\ last.rest = last.at + SubHeaderLen + 4 + StringLen

\* A step of a sequence loop that yields a record moves the cursor forward
\* by the record's size field; a step that ends the loop does so at the
\* sentinel check, at a panic, or because the record does not fit in what
\* is left of the buffer.
LoopStep ==
    pc \in {"sub", "main"}
        => /\ last'.at = cur
           /\ last'.kind = "Ok"
                  => /\ pc' = pc
                     /\ cur' = cur + U16At(cur + 6)
                     /\ cur' > cur
                     /\ Len(acc') = Len(acc) + 1
           /\ last'.kind # "Ok"
                  => /\ pc' # pc
                     /\ \/ last'.line \in {334, 355}
                        \/ last'.kind = "Panic"
                        \/ ~Fits(cur, IF pc = "sub" THEN SubHeaderLen
                                      ELSE MainHeaderLen)
                        \/ ~Fits(cur, (IF pc = "sub" THEN SubHeaderLen
                                       ELSE MainHeaderLen)
                                      + ArgsLen(IF pc = "sub"
                                                THEN SubArgTypes(U16At(cur + 4))
                                                ELSE MainArgTypes(U16At(cur + 4))))

\* An upper bound on the number of steps left: one slot of an offset array
\* costs at most one step to open it and one step per byte left plus one to
\* close it.
Variant ==
    LET L    == Len(input)
        slot == L + 2
        tail == MainSlots * slot + 1
    IN  CASE pc = "header" -> (L + 1) * slot + tail + 2
          [] pc = "subs"   -> (Len(sub_offsets) + 1 - k) * slot + tail + 1
          [] pc = "sub"    -> (Len(sub_offsets) - k) * slot + (L - cur) + tail + 2
          [] pc = "mains"  -> (MainSlots + 1 - k) * slot + 1
          [] pc = "main"   -> (MainSlots - k) * slot + (L - cur) + 2
          [] pc = "done"   -> 0

\* C10: decode terminates: a loop iteration that yields a record advances
\* the cursor by the record's declared size, the cursor never passes the
\* end of the buffer, and each loop ends at the sentinel, at an error or at
\* the end of the buffer.  Termination: every step lowers Variant, which is
\* never negative and is zero only once the call has ended.
C10_Terminates ==
    /\ [][LoopStep /\ Variant' < Variant]_vars
    /\ [](cur <= Len(input) /\ Variant >= 0 /\ (Variant = 0 <=> pc = "done"))

\* A successful decode in which both loops yielded records.
C10_Witness ==
    /\ result.kind = "Ok"
    /\ \E j \in 1..Len(subs) : Len(subs[j].instructions) >= 2
    /\ \E j \in 1..Len(mains) : Len(mains[j].instructions) >= 2

=============================================================================
